---- MODULE Spec2Model ----
(***************************************************************************)
(* A model of the event loop of aio (src/aio/loop/pure.py): the loop step  *)
(* BaseEventLoop.run_step, the scheduling primitives call_soon/call_later, *)
(* Handle.cancel, the callback wrapper with its exception handler,         *)
(* BaseEventLoop.run and BaseEventLoop.create_networking.                  *)
(*                                                                         *)
(* Time is counted in clock ticks.  A Handle's missing deadline (when is   *)
(* None) is written NoDeadline.  The Scheduler, the selector, Future/Task  *)
(* and the signal installer are collaborators whose code is not part of    *)
(* the sources; they are modelled from their description.                  *)
(***************************************************************************)
EXTENDS Integers, Sequences, FiniteSets, TLC

\* ---------------------------------------------------------------- bounds
MaxHandles == 3      \* Handles created in one run of the model
MaxTime == 3         \* the clock stops advancing here
MaxDelay == 2        \* largest delay given to call_later

MaxScopes == 3       \* create_networking scopes (NetSpec)
MaxFactoryCalls == 3 \* networking factory invocations (NetSpec)
MaxCallbacks == 2    \* completion callbacks registered on one Future
MaxDepth == 3        \* callbacks nested on the stack (SlotSpec)

\* Clock.resolution(): the tick granularity the clock reports.
resolution == 1

NoDeadline == -1
NoLoop == 0          \* the running-loop slot when no loop is running
Loops == {1, 2}      \* loops of the program; each callback belongs to one
None == -2           \* a missing next event / a missing select timeout

Fds == {1}             \* file descriptors that may be watched
Delays == 0..MaxDelay

VARIABLES
  \* ---- program state
  now,          \* Clock.now()
  handles,      \* every Handle created so far, in creation order
  queue,        \* Scheduler: ids of the Handles it holds
  watches,      \* selector: fds with a registered callback
  pc,           \* where run_step is: idle, select, early, io, late, aborted
  early,        \* early_callbacks still to dispatch
  ioq,          \* selector_callbacks still to dispatch
  late,         \* late_callbacks still to dispatch
  wait_events,  \* the timeout handed to selector.select
  end_at,       \* after_select + clock_resolution
  runPc,        \* where run is: init, running, returned, raised, assert_failed
  runError,     \* what run raised ("" when nothing)
  rootState,    \* root Task: none, pending, suspended, resolved, failed
  received_fut, \* run's received_fut is set
  handlerCalls, \* calls of the loop's exception handler in this step
  fut,          \* a Future of the program: its state, its callbacks' number
  cached_networking, \* _cached_networking (0: None)
  scopes,       \* each create_networking scope: its state and instance
  factoryCalls, \* invocations of the networking factory
  released,     \* Networking instances whose factory context has exited
  called,       \* the last call_soon/call_later of the program (CallSpec)
  running_loop, \* _running_loop as the code now executing sees it
  tokens,       \* per callback on the stack: its loop and its reset token
  exited,       \* the callback that ended last: its token and its outcome
  \* ---- observers (written, never read, by the actions)
  hist,         \* per Handle: who created it and when it was popped
  order,        \* per Handle id: how often it was invoked
  prev,         \* the deadline and id of the Handle invoked last
  trace,        \* this step's dispatches: the batches they came from
  raised,       \* errors raised by callbacks in this step
  sigint,       \* where run_step was when SIGINT arrived
  obs           \* what StepBegin saw: clock readings, next event, raises

prog == <<now, handles, queue, watches, pc, early, ioq, late, wait_events,
          end_at, runPc, runError, rootState, received_fut, handlerCalls, fut>>
slot == <<running_loop, tokens, exited>>
net == <<cached_networking, scopes, factoryCalls, released, called, slot>>
\* What no action of the loop but Sigint writes.
rest == <<net, sigint>>
vars == <<prog, net, hist, order, prev, trace, raised, sigint, obs>>

\* ------------------------------------------------------------- Handle
\* dataclass Handle(when, callback, args, cancelled, context); the callback
\* is represented by its kind: user, task (a root Task step), wake (the
\* completion of a Future the root Task awaits), recv (receive_result) or
\* fcb (a completion callback of the program's Future; args is its position
\* in the Future's callback list).
Handle(when, kind) ==
  [when |-> when, cancelled |-> FALSE, kind |-> kind, args |-> 0]

\* Handle.cancel()
Cancel(hs, h) == [hs EXCEPT ![h].cancelled = TRUE]

UserIds == {h \in DOMAIN handles : handles[h].kind = "user"}

\* ---------------------------------------------------------- Scheduler
\* The heap key (deadline, sequence): no deadline sorts first, ties break
\* by insertion order (the Handle's id).
Before(hs, a, b) ==
  \/ hs[a].when < hs[b].when
  \/ hs[a].when = hs[b].when /\ a < b

MinOf(hs, S) == CHOOSE a \in S : \A b \in S \ {a} : Before(hs, a, b)

RECURSIVE HeapOrder(_, _)
HeapOrder(hs, S) ==
  IF S = {} THEN <<>>
  ELSE LET m == MinOf(hs, S) IN <<m>> \o HeapOrder(hs, S \ {m})

Due(hs, q, t) == {h \in q : hs[h].when <= t}

\* Scheduler.pop_pending(t): the due entries in heap order, cancelled ones
\* dropped silently.
PopPending(hs, q, t) == HeapOrder(hs, {h \in Due(hs, q, t) : ~hs[h].cancelled})

\* What pop_pending(t) leaves in the scheduler.
AfterPop(hs, q, t) == q \ Due(hs, q, t)

Live(hs, q) == {h \in q : ~hs[h].cancelled}

\* Scheduler.next_event(): the deadline of the minimum non-cancelled entry.
NextEvent(hs, q) ==
  IF Live(hs, q) = {} THEN None ELSE hs[MinOf(hs, Live(hs, q))].when

\* next_event() lazily discards the cancelled entries at the top of the heap.
AfterNextEvent(hs, q) ==
  IF Live(hs, q) = {} THEN {}
  ELSE {h \in q : ~hs[h].cancelled \/ Before(hs, MinOf(hs, Live(hs, q)), h)}

\* A Handle is destroyed after dispatch or when the scheduler drops it as
\* cancelled: the records of the Handles outside `alive` are forgotten.
Destroyed(hs, h) ==
  [when |-> NoDeadline, cancelled |-> TRUE, kind |-> hs[h].kind,
   args |-> hs[h].args]

Collect(hs, alive) ==
  [h \in DOMAIN hs |-> IF h \in alive THEN hs[h] ELSE Destroyed(hs, h)]

\* --------------------------------------------------------- observers
NewHist(ctx) ==
  [fresh |-> ctx # "ext", seen |-> 0]

\* The Handles of batch b were popped now, having seen Len(handles) Handles.
MarkPopped(hi, b, alive) ==
  [h \in DOMAIN hi |->
     IF \E i \in DOMAIN b : b[i] = h
     THEN [hi[h] EXCEPT !.seen = Len(handles)]
     ELSE IF h \in alive THEN hi[h] ELSE [fresh |-> FALSE, seen |-> 0]]

\* Handle h is invoked now.
Invoked(h) == [order EXCEPT ![h] = @ + 1]

NoObs == [at_start |-> 0, clockNow |-> 0, next |-> None, minBefore |-> None,
          watched |-> {}]

Range(s) == {s[i] : i \in DOMAIN s}

\* ------------------------------------------------ call_soon / call_later
\* BaseEventLoop.call_soon: the Handle it builds.
CallSoon(kind) == Handle(NoDeadline, kind)

\* Faulty variant of CallLater: a zero timeout is not handed to call_soon.
CallLaterNoDelegate(timeout, kind) == Handle(now + timeout, kind)

\* BaseEventLoop.call_later: a zero timeout delegates to call_soon.
CallLater(timeout, kind) ==
  IF timeout = 0 THEN CallSoon(kind) ELSE Handle(now + timeout, kind)

\* self._scheduler.enqueue(handle); return handle
Enqueue(handle, ctx) ==
  /\ Len(handles) < MaxHandles
  /\ handles' = Append(handles, handle)
  /\ queue' = queue \cup {Len(handles) + 1}
  /\ hist' = Append(hist, NewHist(ctx))

\* Several call_soon calls made by one callback.
EnqueueAll(hs, ctx) ==
  /\ Len(handles) + Len(hs) <= MaxHandles
  /\ handles' = handles \o hs
  /\ queue' = queue \cup (Len(handles) + 1 .. Len(handles) + Len(hs))
  /\ hist' = hist \o [i \in 1..Len(hs) |-> NewHist(ctx)]

\* ---------------------------------------------------------------- Future
\* Faulty variant of Deliveries: the callback list is walked from its end.
DeliveriesReversed(n) ==
  [i \in 1..n |-> [CallSoon("fcb") EXCEPT !.args = n + 1 - i]]

\* Future.set_result / set_exception: each completion callback is handed to
\* call_soon, in registration order.
Deliveries(n) == [i \in 1..n |-> [CallSoon("fcb") EXCEPT !.args = i]]

\* ------------------------------------------------------------ run_step
\* Faulty variants of WaitEvents: the negative difference is not clamped;
\* the deadline is handed to select as if it were a duration.
WaitEventsNoClamp(nEarly, next_event_at, clockNow) ==
  IF nEarly > 0 THEN 0
  ELSE IF next_event_at = None THEN None
  ELSE next_event_at - clockNow

WaitEventsAbsolute(nEarly, next_event_at, clockNow) ==
  IF nEarly > 0 THEN 0
  ELSE IF next_event_at = None THEN None
  ELSE next_event_at

\* Faulty variant of WaitEvents: the early batch is not looked at.
WaitEventsIgnoresEarly(nEarly, next_event_at, clockNow) ==
  IF next_event_at = None THEN None
  ELSE IF next_event_at - clockNow < 0 THEN 0
  ELSE next_event_at - clockNow

\* Faulty variant of WaitEvents: the next event is looked at before the
\* early batch.
WaitEventsNextFirst(nEarly, next_event_at, clockNow) ==
  IF next_event_at = None THEN None
  ELSE IF nEarly > 0 THEN 0
  ELSE IF next_event_at - clockNow < 0 THEN 0
  ELSE next_event_at - clockNow

\* run_step, lines 127-134: the timeout for selector.select.
WaitEvents(nEarly, next_event_at, clockNow) ==
  IF nEarly > 0 THEN 0
  ELSE IF next_event_at = None THEN None
  ELSE IF next_event_at - clockNow < 0 THEN 0
  ELSE next_event_at - clockNow

\* The clock may advance between two readings inside run_step.
Drift == 0..(resolution + 2)

\* The earliest deadline among the non-cancelled Handles the scheduler holds.
MinPending == NextEvent(handles, queue)

\* run_step up to the call of selector.select (lines 116-144).
StepBegin ==
  /\ runPc = "running" /\ pc = "idle"
  /\ LET at_start == now
         popped == PopPending(handles, queue, at_start + resolution)
         q1 == AfterPop(handles, queue, at_start + resolution)
         next_event_at == NextEvent(handles, q1)
     IN \E d \in Drift :
          /\ now + d <= MaxTime
          /\ now' = now + d
          /\ early' = popped
          /\ queue' = AfterNextEvent(handles, q1)
          /\ wait_events' = WaitEvents(Len(popped), next_event_at, now + d)
          /\ handles' = Collect(handles, AfterNextEvent(handles, q1) \cup Range(popped))
          /\ hist' = MarkPopped([h \in DOMAIN hist |-> [hist[h] EXCEPT !.fresh = FALSE]],
                                popped, AfterNextEvent(handles, q1))
          /\ obs' = [at_start |-> at_start, clockNow |-> now + d,
                     next |-> next_event_at, minBefore |-> MinPending,
                     watched |-> watches]
  /\ pc' = "select"
  /\ trace' = {}
  /\ handlerCalls' = 0
  /\ raised' = 0
  /\ UNCHANGED <<watches, ioq, late, end_at, runPc, runError, rootState,
                 received_fut, order, prev, rest>>
  /\ UNCHANGED fut

\* How long select may block: not at all on a poll, up to the timeout
\* otherwise, and without limit when the timeout is None.
Elapsed(w) == IF w = None THEN 0..MaxTime ELSE 0..w

RECURSIVE Ascending(_)
Ascending(S) ==
  IF S = {} THEN <<>>
  ELSE LET m == CHOOSE a \in S : \A b \in S : a <= b
       IN <<m>> \o Ascending(S \ {m})

\* Faulty variant of EndAt: the slack window is two resolutions wide.
EndAtTwice(after_select) == after_select + 2 * resolution

\* Line 153: end_at = after_select + clock_resolution.
EndAt(after_select) == after_select + resolution

\* selector.select returns (lines 141-153): some watched fds fired, or the
\* timeout ran out, or wakeup_thread_safe woke it.
SelectReturn ==
  /\ pc = "select"
  /\ \E fired \in SUBSET watches, el \in Elapsed(wait_events) :
       /\ now + el <= MaxTime
       /\ now' = now + el
       /\ ioq' = Ascending(fired)
       /\ end_at' = EndAt(now + el)
  /\ wait_events' = None
  /\ obs' = NoObs
  /\ pc' = "early"
  /\ UNCHANGED <<handles, queue, watches, early, late, runPc, runError,
                 rootState, received_fut, handlerCalls, raised, hist, order,
                 prev, trace, rest>>
  /\ UNCHANGED fut

\* ------------------------------------- _invoke_callback_within_context
\* A callback ends normally ("ok"), raises an Exception derivative or
\* raises another BaseException (system-exit class).
Outcomes == {"ok", "Exception", "BaseException"}

\* Faulty variant of HandlerCallsFor: the second except clause raises again
\* without calling the exception handler.
HandlerCallsExceptionOnly(outcome) == IF outcome = "Exception" THEN 1 ELSE 0

\* Lines 224-227: both except clauses call the exception handler once.
HandlerCallsFor(outcome) == IF outcome = "ok" THEN 0 ELSE 1

\* Faulty variant of Propagates: every error is raised again.
PropagatesAll(outcome) == outcome # "ok"

\* Lines 226-228: only a non-Exception error is raised again.
Propagates(outcome) == outcome = "BaseException"

\* What the wrapper does with the callback's outcome; the running-loop slot
\* is set on entry and reset on exit (EnterCallback, ExitCallback), which
\* leaves it as it was.
WithinContext(outcome) ==
  /\ handlerCalls' = handlerCalls + HandlerCallsFor(outcome)
  /\ raised' = raised + (IF outcome = "ok" THEN 0 ELSE 1)
  /\ IF Propagates(outcome)
     THEN /\ pc' = "aborted"
          /\ runPc' = "raised"
          /\ runError' = outcome
     ELSE UNCHANGED <<pc, runPc, runError>>

\* ------------------------------------------------------ callback bodies
\* What a user callback (a timer's or an I/O callback) may do: nothing,
\* call_soon, call_later, call_soon and cancel the Handle it was given at
\* once, cancel a Handle it holds, watch or unwatch an fd,
\* raise, complete the Future the root Task is suspended on (the Task is
\* then enqueued through call_soon), or complete the program's Future.  ctx
\* names the batch the callback runs in.
UserCallback(ctx) ==
  \/ /\ \E outcome \in Outcomes : WithinContext(outcome)
     /\ UNCHANGED <<handles, queue, hist, watches, rootState, received_fut, fut>>
  \/ /\ Enqueue(CallSoon("user"), ctx)
     /\ WithinContext("ok")
     /\ UNCHANGED <<watches, rootState, received_fut, fut>>
  \/ /\ \E d \in Delays : Enqueue(CallLater(d, "user"), ctx)
     /\ WithinContext("ok")
     /\ UNCHANGED <<watches, rootState, received_fut, fut>>
  \/ /\ Enqueue(Cancel(<<CallSoon("user")>>, 1)[1], ctx)
     /\ WithinContext("ok")
     /\ UNCHANGED <<watches, rootState, received_fut, fut>>
  \/ /\ \E g \in UserIds : /\ ~handles[g].cancelled
                           /\ handles' = Cancel(handles, g)
     /\ WithinContext("ok")
     /\ UNCHANGED <<queue, hist, watches, rootState, received_fut, fut>>
  \/ /\ \E fd \in Fds : watches' = IF fd \in watches THEN watches \ {fd}
                                   ELSE watches \cup {fd}
     /\ WithinContext("ok")
     /\ UNCHANGED <<handles, queue, hist, rootState, received_fut, fut>>
  \/ /\ rootState = "suspended"
     /\ rootState' = "pending"
     /\ Enqueue(CallSoon("task"), ctx)
     /\ WithinContext("ok")
     /\ UNCHANGED <<watches, received_fut, fut>>
  \/ /\ fut.state = "pending"
     /\ fut' = [fut EXCEPT !.state = "done"]
     /\ EnqueueAll(Deliveries(fut.callbacks), ctx)
     /\ WithinContext("ok")
     /\ UNCHANGED <<watches, rootState, received_fut>>

\* One step of the root Task: its computation finishes (set_result), raises
\* (set_exception), awaits a sleep (a timer completes the awaited Future),
\* awaits a Future that is already complete (immediate re-enqueue) or is
\* suspended on a Future that a callback may complete later.  On completion
\* the Task's Future delivers receive_result through call_soon.
TaskCallback(ctx) ==
  /\ rootState = "pending"
  /\ \/ /\ \E r \in {"resolved", "failed"} : rootState' = r
        /\ Enqueue(CallSoon("recv"), ctx)
     \/ /\ \E d \in 1..MaxDelay : Enqueue(CallLater(d, "wake"), ctx)
        /\ UNCHANGED rootState
     \/ /\ Enqueue(CallSoon("task"), ctx)
        /\ UNCHANGED rootState
     \/ /\ rootState' = "suspended"
        /\ UNCHANGED <<handles, queue, hist, fut>>
  /\ WithinContext("ok")
  /\ UNCHANGED <<watches, received_fut, fut>>

\* The awaited Future completes: the root Task is enqueued through call_soon.
WakeCallback(ctx) ==
  /\ Enqueue(CallSoon("task"), ctx)
  /\ WithinContext("ok")
  /\ UNCHANGED <<watches, rootState, received_fut, fut>>

\* run's receive_result (lines 301-303).
ReceiveResult ==
  /\ received_fut' = TRUE
  /\ WithinContext("ok")
  /\ UNCHANGED <<handles, queue, hist, watches, rootState, fut>>

\* A completion callback of the program's Future.
FutureCallback ==
  /\ WithinContext("ok")
  /\ UNCHANGED <<handles, queue, hist, watches, rootState, received_fut, fut>>

InvokeCallback(kind, ctx) ==
  CASE kind = "user" -> UserCallback(ctx)
    [] kind = "task" -> TaskCallback(ctx)
    [] kind = "wake" -> WakeCallback(ctx)
    [] kind = "recv" -> ReceiveResult
    [] kind = "fcb" -> FutureCallback

\* ------------------------------------------------------- _invoke_handle
\* Faulty variant of Skips: the cancelled flag is not looked at.
SkipsNever(h) == FALSE

\* Lines 233-235: a cancelled Handle is skipped.
Skips(h) == handles[h].cancelled

cbvars == <<handles, queue, hist, watches, rootState, received_fut, fut,
            handlerCalls, raised, pc, runPc, runError>>

InvokeHandle(h, ctx) ==
  IF Skips(h)
  THEN UNCHANGED <<cbvars, order, prev, trace>>
  ELSE /\ InvokeCallback(handles[h].kind, ctx)
       /\ order' = Invoked(h)
       /\ prev' = [when |-> handles[h].when, id |-> h]
       /\ trace' = trace \cup {ctx}

\* ------------------------------------------------- run_step, dispatching
\* Faulty variant of DispatchEarly: the batch is walked from its end.
DispatchEarlyReversed ==
  /\ pc = "early" /\ early # <<>>
  /\ InvokeHandle(early[Len(early)], "early")
  /\ early' = SubSeq(early, 1, Len(early) - 1)
  /\ UNCHANGED <<now, ioq, late, wait_events, end_at, rest, obs>>

\* Lines 161-168: the loop over early_callbacks.
DispatchEarly ==
  /\ pc = "early" /\ early # <<>>
  /\ InvokeHandle(Head(early), "early")
  /\ early' = Tail(early)
  /\ UNCHANGED <<now, ioq, late, wait_events, end_at, rest, obs>>

EarlyDone ==
  /\ pc = "early" /\ early = <<>>
  /\ pc' = "io"
  /\ UNCHANGED <<now, handles, queue, watches, early, ioq, late, wait_events,
                 end_at, runPc, runError, rootState, received_fut,
                 handlerCalls, raised, rest, hist, order, prev, trace, obs>>
  /\ UNCHANGED fut

\* Faulty variant of DispatchIO: the I/O callbacks run while early
\* callbacks are still waiting.
DispatchIOFirst ==
  /\ pc = "early" /\ ioq # <<>>
  /\ InvokeCallback("user", "io")
  /\ ioq' = Tail(ioq)
  /\ trace' = trace \cup {"io"}
  /\ UNCHANGED <<now, early, late, wait_events, end_at, order, prev, rest, obs>>

\* Lines 171-183: the loop over selector_callbacks.
DispatchIO ==
  /\ pc = "io" /\ ioq # <<>>
  /\ InvokeCallback("user", "io")
  /\ ioq' = Tail(ioq)
  /\ trace' = trace \cup {"io"}
  /\ UNCHANGED <<now, early, late, wait_events, end_at, order, prev, rest, obs>>

\* Faulty variant of PopLate: the second pop_pending is left out, so what
\* became due while select was blocking waits for the next step.
PopLateNone ==
  /\ pc = "io" /\ ioq = <<>>
  /\ late' = <<>>
  /\ pc' = "late"
  /\ end_at' = 0
  /\ UNCHANGED <<now, handles, queue, hist, watches, early, ioq, wait_events,
                 runPc, runError, rootState, received_fut, handlerCalls,
                 raised, rest, order, prev, trace, obs>>
  /\ UNCHANGED fut

\* Line 186: late_callbacks = pop_pending(end_at), after the I/O callbacks.
PopLate ==
  /\ pc = "io" /\ ioq = <<>>
  /\ late' = PopPending(handles, queue, end_at)
  /\ queue' = AfterPop(handles, queue, end_at)
  /\ handles' = Collect(handles, AfterPop(handles, queue, end_at)
                                   \cup Range(PopPending(handles, queue, end_at)))
  /\ hist' = MarkPopped(hist, PopPending(handles, queue, end_at),
                        AfterPop(handles, queue, end_at))
  /\ pc' = "late"
  /\ end_at' = 0
  /\ UNCHANGED <<now, watches, early, ioq, wait_events, runPc,
                 runError, rootState, received_fut, handlerCalls, raised, rest,
                 order, prev, trace, obs>>
  /\ UNCHANGED fut

\* Faulty variant of DispatchLate: the loop does not move on to the next
\* Handle of the batch.
DispatchLateRepeats ==
  /\ pc = "late" /\ late # <<>>
  /\ InvokeHandle(Head(late), "late")
  /\ late' = late
  /\ UNCHANGED <<now, early, ioq, wait_events, end_at, rest, obs>>

\* Lines 191-197: the loop over late_callbacks.
DispatchLate ==
  /\ pc = "late" /\ late # <<>>
  /\ InvokeHandle(Head(late), "late")
  /\ late' = Tail(late)
  /\ UNCHANGED <<now, early, ioq, wait_events, end_at, rest, obs>>

\* ------------------------------------------------------------------ run
\* Faulty variant of ShouldBreak: run leaves its loop after the first step.
BreakAlways == TRUE

\* Line 317: run leaves its loop once received_fut is set.
ShouldBreak == received_fut

\* Lines 320-321: the two assertions after the loop.
AssertsHold == rootState \in {"resolved", "failed"} /\ received_fut

\* Lines 298-309: run creates the root Task (enqueued through call_soon) and
\* registers receive_result on it.
Run ==
  /\ runPc = "init"
  /\ Enqueue(CallSoon("task"), "ext")
  /\ runPc' = "running"
  /\ rootState' = "pending"
  /\ UNCHANGED <<now, watches, pc, early, ioq, late, wait_events, end_at,
                 runError, received_fut, handlerCalls, raised, rest, order, prev, trace, obs>>
  /\ UNCHANGED fut

\* run_step returns (line 199) and run tests received_fut (lines 317-322):
\* it runs another step, or returns received_fut.result(), which raises the
\* root Task's stored error.
StepEnd ==
  /\ pc = "late" /\ late = <<>>
  /\ pc' = "idle"
  /\ IF ShouldBreak
     THEN IF AssertsHold
          THEN IF rootState = "failed"
               THEN runPc' = "raised" /\ runError' = "stored"
               ELSE runPc' = "returned" /\ UNCHANGED runError
          ELSE runPc' = "assert_failed" /\ UNCHANGED runError
     ELSE UNCHANGED <<runPc, runError>>
  /\ handles' = Collect(handles, queue)
  /\ hist' = MarkPopped(hist, <<>>, queue)
  /\ UNCHANGED <<now, queue, watches, early, ioq, late, wait_events, end_at,
                 rootState, received_fut, handlerCalls, raised, rest, order,
                 prev, trace, obs>>
  /\ UNCHANGED fut

\* Faulty variant of Sigint: run swallows KeyboardCanceled and goes on to
\* the next step.
SigintSwallowed ==
  /\ runPc = "running"
  /\ pc \in {"idle", "select", "early", "io", "late"}
  /\ pc' = "idle"
  /\ sigint' = [at |-> pc, wait |-> wait_events]
  /\ UNCHANGED <<now, handles, queue, watches, early, ioq, late, wait_events,
                 end_at, runPc, runError, rootState, received_fut,
                 handlerCalls, raised, net, hist, order, prev, trace, obs>>
  /\ UNCHANGED fut

\* on_keyboard_interrupt (lines 305-307): SIGINT reaches the loop while it is
\* blocked in select, or between two callbacks or two steps; KeyboardCanceled
\* leaves run_step and run re-raises it (lines 313-316).
Sigint ==
  /\ runPc = "running"
  /\ pc \in {"idle", "select", "early", "io", "late"}
  /\ pc' = "aborted"
  /\ runPc' = "raised"
  /\ runError' = "KeyboardCanceled"
  /\ sigint' = [at |-> pc, wait |-> wait_events]
  /\ UNCHANGED <<now, handles, queue, watches, early, ioq, late, wait_events,
                 end_at, rootState, received_fut, handlerCalls, raised, net,
                 hist, order, prev, trace, obs>>
  /\ UNCHANGED fut

\* ---------------------------------------------------------- environment
\* Future.add_callback on the pending Future, before run is called.
AddCallback ==
  /\ runPc = "init"
  /\ fut.state = "pending" /\ fut.callbacks < MaxCallbacks
  /\ fut' = [fut EXCEPT !.callbacks = @ + 1]
  /\ UNCHANGED <<now, handles, queue, watches, pc, early, ioq, late,
                 wait_events, end_at, runPc, runError, rootState,
                 received_fut, handlerCalls, raised, rest, hist, order, prev,
                 trace, obs>>

\* Before run is called the program may schedule callbacks, cancel them and
\* register I/O watches.
Setup ==
  /\ runPc = "init"
  /\ \/ Enqueue(CallSoon("user"), "ext") /\ UNCHANGED watches
     \/ /\ \E d \in Delays : Enqueue(CallLater(d, "user"), "ext")
        /\ UNCHANGED watches
     \/ /\ \E g \in UserIds : /\ ~handles[g].cancelled
                              /\ handles' = Cancel(handles, g)
        /\ UNCHANGED <<queue, hist, watches>>
     \/ /\ \E fd \in Fds \ watches : watches' = watches \cup {fd}
        /\ UNCHANGED <<handles, queue, hist>>
  /\ UNCHANGED fut
  /\ UNCHANGED <<now, pc, early, ioq, late, wait_events, end_at, runPc,
                 runError, rootState, received_fut, handlerCalls, raised, rest, order,
                 prev, trace, obs>>

\* ----------------------------------------------------- create_networking
\* A task enters a create_networking scope (lines 245-251): it is handed the
\* cached instance, or the factory is called and its instance is cached.
EnterScope(s) ==
  /\ scopes[s].state = "closed"
  /\ IF cached_networking # 0
     THEN /\ scopes' = [scopes EXCEPT ![s] = [state |-> "shared",
                                               inst |-> cached_networking]]
          /\ UNCHANGED <<cached_networking, factoryCalls>>
     ELSE /\ factoryCalls < MaxFactoryCalls
          /\ factoryCalls' = factoryCalls + 1
          /\ cached_networking' = factoryCalls + 1
          /\ scopes' = [scopes EXCEPT ![s] = [state |-> "owner",
                                               inst |-> factoryCalls + 1]]
  /\ UNCHANGED <<released, called, slot, prog, hist, order, prev, trace, raised,
                 sigint, obs>>

\* A task leaves its scope (lines 252-253): the scope that called the factory
\* clears the cache and exits the factory's context.
ExitScope(s) ==
  /\ scopes[s].state # "closed"
  /\ IF scopes[s].state = "owner"
     THEN /\ cached_networking' = 0
          /\ released' = released \cup {scopes[s].inst}
     ELSE UNCHANGED <<cached_networking, released>>
  /\ scopes' = [scopes EXCEPT ![s].state = "closed"]
  /\ UNCHANGED <<factoryCalls, called, slot, prog, hist, order, prev, trace, raised,
                 sigint, obs>>

\* ------------------------------------------------------- specification
Init ==
  /\ now = 0
  /\ handles = <<>>
  /\ queue = {}
  /\ watches = {}
  /\ pc = "idle"
  /\ early = <<>> /\ ioq = <<>> /\ late = <<>>
  /\ wait_events = None
  /\ end_at = 0
  /\ runPc = "init"
  /\ runError = ""
  /\ rootState = "none"
  /\ received_fut = FALSE
  /\ handlerCalls = 0
  /\ fut = [state |-> "pending", callbacks |-> 0]
  /\ cached_networking = 0
  /\ scopes = [s \in 1..MaxScopes |-> [state |-> "closed", inst |-> 0]]
  /\ factoryCalls = 0
  /\ released = {}
  /\ called = [op |-> "", timeout |-> 0, at |-> 0, returned |-> 0]
  /\ running_loop = NoLoop
  /\ tokens = <<>>
  /\ exited = [old |-> NoLoop, outcome |-> ""]
  /\ hist = <<>>
  /\ order = [h \in 1..MaxHandles |-> 0]
  /\ prev = [when |-> NoDeadline, id |-> 0]
  /\ trace = {}
  /\ raised = 0
  /\ sigint = [at |-> "", wait |-> None]
  /\ obs = NoObs

Next ==
  \/ Setup
  \/ AddCallback
  \/ Run
  \/ StepBegin
  \/ SelectReturn
  \/ DispatchEarly
  \/ EarlyDone
  \/ DispatchIO
  \/ PopLate
  \/ DispatchLate
  \/ StepEnd
  \/ Sigint

Spec == Init /\ [][Next]_vars

\* The tasks of one loop entering and leaving create_networking scopes.
NetNext ==
  \/ \E s \in 1..MaxScopes : EnterScope(s)
  \/ \E s \in 1..MaxScopes : ExitScope(s)

NetSpec == Init /\ [][NetNext]_vars

\* The program calling call_soon and call_later at various clock readings
\* and cancelling the Handles it was given; `called` keeps the last call.
untouched == <<watches, pc, early, ioq, late, wait_events, end_at, runPc,
               runError, rootState, received_fut, handlerCalls, fut,
               cached_networking, scopes, factoryCalls, released, slot, order,
               prev, trace, raised, sigint, obs>>

CallSoonCall ==
  /\ Enqueue(CallSoon("user"), "ext")
  /\ called' = [op |-> "call_soon", timeout |-> 0, at |-> now,
                returned |-> Len(handles')]
  /\ UNCHANGED <<now, untouched>>

CallLaterCall(timeout) ==
  /\ Enqueue(CallLater(timeout, "user"), "ext")
  /\ called' = [op |-> "call_later", timeout |-> timeout, at |-> now,
                returned |-> Len(handles')]
  /\ UNCHANGED <<now, untouched>>

CancelCall(g) ==
  /\ ~handles[g].cancelled
  /\ handles' = Cancel(handles, g)
  /\ UNCHANGED <<now, queue, hist, called, untouched>>

ClockAdvance ==
  /\ now < MaxTime
  /\ now' = now + 1
  /\ UNCHANGED <<handles, queue, hist, called, untouched>>

CallNext ==
  \/ CallSoonCall
  \/ \E timeout \in Delays : CallLaterCall(timeout)
  \/ \E g \in DOMAIN handles : CancelCall(g)
  \/ ClockAdvance

CallSpec == Init /\ [][CallNext]_vars

\* ------------------------------------------------------ running-loop slot
\* Faulty variant of SlotReset: the slot is cleared instead of being given
\* back the value the token holds.
SlotResetClears(token) == NoLoop

\* Line 230: _running_loop.reset(token).
SlotReset(token) == token.old

\* Line 221: token = _running_loop.set(self) as loop l enters a callback.
\* A callback may itself drive a loop (run or run_step, of this loop or of
\* another), whose callbacks are entered while it is on the stack.
EnterCallback(l) ==
  /\ Len(tokens) < MaxDepth
  /\ tokens' = Append(tokens, [loop |-> l, old |-> running_loop])
  /\ running_loop' = l
  /\ UNCHANGED <<exited, prog, cached_networking, scopes, factoryCalls,
                 released, called, hist, order, prev, trace, raised, sigint,
                 obs>>

\* Lines 222-230: the callback ends with some outcome and the finally
\* clause resets the slot.
ExitCallback(outcome) ==
  /\ tokens # <<>>
  /\ running_loop' = SlotReset(tokens[Len(tokens)])
  /\ tokens' = SubSeq(tokens, 1, Len(tokens) - 1)
  /\ exited' = [old |-> tokens[Len(tokens)].old, outcome |-> outcome]
  /\ UNCHANGED <<prog, cached_networking, scopes, factoryCalls, released,
                 called, hist, order, prev, trace, raised, sigint, obs>>

SlotNext ==
  \/ \E l \in Loops : EnterCallback(l)
  \/ \E outcome \in Outcomes : ExitCallback(outcome)

SlotSpec == Init /\ [][SlotNext]_vars

\* =============================================================== claims
Pending == queue \cup Range(early) \cup Range(late)

\* Handle h is invoked by this step of the model.
InvokedNow(h) == order'[h] > order[h]

KeyLe(w1, i1, w2, i2) == w1 < w2 \/ (w1 = w2 /\ i1 <= i2)

Max(a, b) == IF a >= b THEN a ELSE b

\* ---- C1: within one run_step every Handle of the early batch is
\* dispatched before any I/O callback, and every I/O callback before any
\* Handle of the late batch, which is popped only after the I/O callbacks ran.
C1_EarlyIoLate ==
  /\ "io" \in trace => early = <<>>
  /\ "late" \in trace => early = <<>> /\ ioq = <<>>
  /\ late # <<>> => early = <<>> /\ ioq = <<>>

\* A step that dispatched an early Handle, an I/O callback and a late Handle.
C1_Witness == trace = {"early", "io", "late"}

\* ---- C2 (as claimed): a Handle enqueued by call_soon from a callback is
\* never invoked in the step in which it was created.
C2_CallSoonNextStep ==
  [][\A x \in DOMAIN handles :
       (InvokedNow(x) /\ handles[x].kind = "user" /\ handles[x].when = NoDeadline)
         => ~hist[x].fresh]_vars

\* ---- C3: a Handle whose cancel() was called before its dispatch is never
\* invoked, also when it was cancelled after it was popped into a batch.
C3_CancelledNeverInvoked ==
  [][\A h \in DOMAIN handles : handles[h].cancelled => ~InvokedNow(h)]_vars

\* A Handle that was popped into a batch, cancelled there by an earlier
\* callback of the step, and passed over by the dispatch.
C3_Witness ==
  /\ pc \in {"early", "io", "late"}
  /\ \E h \in DOMAIN handles :
       /\ handles[h].cancelled /\ hist[h].seen > 0
       /\ h \notin Pending /\ order[h] = 0

\* ---- C4: an Exception raised by a callback reaches the exception handler
\* exactly once, does not leave run_step, and the callbacks after it in the
\* step (the rest of the three batches) stay to be executed.
C4_ExceptionIsolated ==
  /\ [](/\ handlerCalls = raised
        /\ pc = "aborted" => runError \in {"BaseException", "KeyboardCanceled"})
  /\ [][(raised' = raised + 1 /\ runError' # "BaseException")
          => /\ pc' = pc
             /\ Len(early') + Len(ioq') + Len(late')
                  = Len(early) + Len(ioq) + Len(late) - 1]_vars

\* Two callbacks of one step raised an Exception: the second ran after the
\* first had raised, and the step goes on.
C4_Witness ==
  /\ raised = 2 /\ handlerCalls = 2
  /\ runError = "" /\ pc \in {"early", "io", "late"}

\* ---- C5 (as claimed): the sequence of all dispatches is sorted by
\* (deadline, insertion order).
C5_DispatchSorted ==
  [][\A h \in DOMAIN handles :
       (InvokedNow(h) /\ prev.id # 0)
         => KeyLe(prev.when, prev.id, handles[h].when, h)]_vars

\* ---- C5 (amended): when a Handle a is dispatched, every non-cancelled
\* Handle that was enqueued before a was popped and is not dispatched yet
\* has a key (deadline, insertion order) that is not smaller than a's.
C5_DispatchSortedAmongEnqueued ==
  [][\A a \in DOMAIN handles :
       InvokedNow(a) =>
         \A b \in Pending \ {a} :
           (b <= hist[a].seen /\ ~handles[b].cancelled)
             => KeyLe(handles[a].when, a, handles[b].when, b)]_vars

\* A Handle was dispatched ahead of a Handle enqueued before it, because
\* its deadline is the earlier one.
C5_Witness ==
  /\ prev.id # 0
  /\ \E b \in Pending :
       /\ b < prev.id /\ ~handles[b].cancelled
       /\ handles[b].when > prev.when /\ prev.when # NoDeadline

\* ---- C6 (as claimed): the timeout is 0 with early work, None when there
\* is no next event and no I/O is registered, and max(0, next_event - now)
\* in every other case.
C6_TimeoutAsClaimed ==
  pc = "select" =>
    IF early # <<>> THEN wait_events = 0
    ELSE IF obs.next = None /\ obs.watched = {} THEN wait_events = None
    ELSE /\ wait_events # None
         /\ wait_events = Max(0, obs.next - obs.clockNow)

\* ---- C6 (amended): the timeout is 0 with early work; otherwise None when
\* the scheduler reports no next event, whether or not I/O is registered;
\* otherwise max(0, next_event - now).  A timeout that is not None is never
\* negative.
C6_Timeout ==
  pc = "select" =>
    /\ IF early # <<>> THEN wait_events = 0
       ELSE IF obs.next = None THEN wait_events = None
       ELSE wait_events = Max(0, obs.next - obs.clockNow)
    /\ wait_events # None => wait_events >= 0

\* The next deadline has passed by the second clock reading: the difference
\* is negative and select is polled.
C6_Witness ==
  /\ pc = "select" /\ early = <<>>
  /\ obs.next # None /\ obs.next < obs.clockNow
  /\ wait_events = 0

\* ---- C7: with the earliest pending deadline at t0 + d (d >= 0), no I/O
\* registered and the clock reading t0 at both readings, select is called
\* with a timeout in [d - resolution, d].
C7_Budget ==
  (/\ pc = "select"
   /\ obs.minBefore # None /\ obs.minBefore >= obs.at_start
   /\ obs.watched = {}
   /\ obs.clockNow = obs.at_start)
  => /\ wait_events # None
     /\ obs.minBefore - obs.at_start - resolution <= wait_events
     /\ wait_events <= obs.minBefore - obs.at_start

\* The deadline lies more than one resolution ahead, at a clock reading
\* that is not zero, and select is given the whole distance.
C7_Witness ==
  /\ pc = "select" /\ obs.watched = {}
  /\ obs.clockNow = obs.at_start /\ obs.at_start > 0
  /\ obs.minBefore # None
  /\ obs.minBefore - obs.at_start > resolution
  /\ wait_events = obs.minBefore - obs.at_start

\* ---- C8: run leaves its loop only with the root Task finished and
\* receive_result called (the two assertions hold); it then returns the
\* root Task's result or raises its stored error.
C8_RunResult ==
  /\ runPc # "assert_failed"
  /\ runPc = "returned" => rootState = "resolved" /\ received_fut
  /\ (runPc = "raised" /\ runError = "stored")
       => rootState = "failed" /\ received_fut

\* run has raised the error stored in the root Task.
C8_Witness == runPc = "raised" /\ runError = "stored" /\ rootState = "failed"

\* ---- C9: SIGINT delivered while run is blocked in select with no timers,
\* no I/O and no early work makes run raise KeyboardCanceled out of that
\* step; no callback is dispatched and no step started afterwards.
SigintWhileBlocked ==
  sigint.at = "select" /\ sigint.wait = None /\ watches = {}

C9_SigintRaises ==
  /\ [](SigintWhileBlocked
          => /\ runPc = "raised" /\ runError = "KeyboardCanceled"
             /\ pc = "aborted")
  /\ [][SigintWhileBlocked => UNCHANGED <<order, trace, pc, early, ioq, late>>]_vars

\* SIGINT arrived while select was blocking without a timeout and with
\* nothing scheduled or watched.
C9_Witness ==
  /\ SigintWhileBlocked
  /\ queue = {} /\ early = <<>>
  /\ runError = "KeyboardCanceled"

\* ---- C10 (as claimed): the networking factory is invoked at most once
\* and every scope is handed the same Networking instance.
C10_NetworkingSingleton ==
  /\ factoryCalls <= 1
  /\ \A s, t \in 1..MaxScopes :
       (scopes[s].inst # 0 /\ scopes[t].inst # 0)
         => scopes[s].inst = scopes[t].inst

\* ---- C11: every non-cancelled Handle whose deadline is not after the bound
\* of a pop_pending call (at_start + resolution for the early one,
\* after_select + resolution for the late one) is in the batch that call
\* returns, and a Handle leaves its batch only by being invoked (or skipped
\* as cancelled) in that step; so a timer that became due while select was
\* blocking is dispatched in the late batch of the same step.
C11_DueTimersDispatched ==
  /\ [][(pc = "idle" /\ pc' = "select")
          => \A h \in queue :
               (~handles[h].cancelled /\ handles[h].when <= now + resolution)
                 => h \in Range(early')]_vars
  /\ [][(pc = "io" /\ pc' = "late")
          => \A h \in queue :
               (~handles[h].cancelled /\ handles[h].when <= end_at)
                 => h \in Range(late')]_vars
  /\ [][\A h \in (Range(early) \ Range(early')) \cup (Range(late) \ Range(late')) :
          InvokedNow(h) \/ handles[h].cancelled]_vars
  /\ [](pc = "idle" => early = <<>> /\ late = <<>>)

\* A timer that existed when the step began, was not due for the early
\* batch, and has been invoked from the late batch of the same step.
C11_Witness ==
  /\ pc = "late" /\ "late" \in trace
  /\ \E h \in DOMAIN handles :
       /\ handles[h].when > 0 /\ ~handles[h].cancelled
       /\ ~hist[h].fresh /\ order[h] = 1
       /\ h \notin Pending

FcbIds == {h \in DOMAIN handles : handles[h].kind = "fcb"}

\* What C12 says apart from the step in which the callbacks fire: each
\* completion callback is handed to call_soon exactly once and invoked at
\* most once, a callback is invoked only after those registered before it,
\* and none is invoked inside the completing call.
FutureDelivery ==
  /\ [](/\ \A h \in FcbIds : order[h] <= 1
        /\ fut.state = "done" =>
             \A i \in 1..fut.callbacks :
               Cardinality({h \in FcbIds : handles[h].args = i}) = 1)
  /\ [][\A b \in FcbIds :
          InvokedNow(b) =>
            \A a \in FcbIds : handles[a].args < handles[b].args => order[a] = 1]_vars
  /\ [][(fut.state = "pending" /\ fut'.state = "done")
          => \A h \in DOMAIN handles' :
               handles'[h].kind = "fcb" => order'[h] = 0 /\ h \in queue']_vars

C13_InvokedAtMostOnce == \A h \in DOMAIN order : order[h] <= 1

\* A Handle was invoked and destroyed, and the loop has gone on to invoke
\* another Handle from a later batch.
C13_Witness ==
  /\ pc = "late" /\ prev.id \in DOMAIN handles
  /\ \E h \in DOMAIN handles :
       /\ h # prev.id /\ order[h] = 1 /\ order[prev.id] = 1
       /\ h \notin Pending /\ handles[h] = Destroyed(handles, h)
       /\ handles[prev.id] # Destroyed(handles, prev.id)

\* ---- C14: when a callback raises an error that is not an Exception, the
\* exception handler is called once with it, the error leaves run_step and
\* run, and no callback that follows it in the step is dispatched.
C14_BaseExceptionUnwinds ==
  /\ [][(runError = "" /\ runError' = "BaseException")
          => /\ handlerCalls' = handlerCalls + 1
             /\ pc' = "aborted" /\ runPc' = "raised"]_vars
  /\ [](runError = "BaseException" => pc = "aborted" /\ runPc = "raised")
  /\ [][runError = "BaseException"
          => UNCHANGED <<order, trace, early, ioq, late, handlerCalls>>]_vars

\* A callback of the early batch raised a non-Exception error while another
\* Handle of the batch and an I/O callback were still to be dispatched.
C14_Witness ==
  /\ runError = "BaseException" /\ runPc = "raised"
  /\ handlerCalls = 1 /\ raised = 1
  /\ early # <<>> /\ ioq # <<>>

\* ---- C15: call_later with a zero delay enqueues exactly the Handle
\* call_soon would (no deadline); with any other delay it enqueues exactly
\* one non-cancelled Handle whose deadline is the clock reading at the call
\* plus the delay; the Handle returned is the one enqueued.
C15_CallLater ==
  [][(called' # called /\ called'.op = "call_later")
       => /\ Len(handles') = Len(handles) + 1
          /\ SubSeq(handles', 1, Len(handles)) = handles
          /\ called'.returned = Len(handles')
          /\ queue' = queue \cup {called'.returned}
          /\ called'.returned \notin queue
          /\ ~handles'[called'.returned].cancelled
          /\ IF called'.timeout = 0
             THEN handles'[called'.returned] = CallSoon("user")
             ELSE handles'[called'.returned].when = now + called'.timeout]_vars

\* call_later was called with a delay that is not zero at a clock reading
\* that is not zero, after an earlier Handle had been enqueued.
C15_Witness ==
  /\ called.op = "call_later" /\ called.timeout > 0 /\ called.at > 0
  /\ called.returned > 1
  /\ handles[called.returned].when = called.at + called.timeout

\* ---- C16: while a callback dispatched by a loop runs, the running-loop
\* slot holds that loop; when the callback exits, normally or by raising,
\* the slot again holds the value it had before the callback was entered.
C16_RunningLoopSlot ==
  /\ [](tokens # <<>> => running_loop = tokens[Len(tokens)].loop)
  /\ [][Len(tokens') < Len(tokens)
          => /\ running_loop' = exited'.old
             /\ running_loop' = IF Len(tokens) = 1 THEN NoLoop
                                ELSE tokens[Len(tokens) - 1].loop]_vars

\* A callback of one loop, entered from a callback of another loop, ended
\* by raising, and the slot holds the outer loop again.
C16_Witness ==
  /\ exited.outcome = "BaseException" /\ exited.old # NoLoop
  /\ Len(tokens) = 1 /\ running_loop = exited.old
  /\ running_loop = tokens[1].loop

\* The root Task has completed.
RootDone == rootState \in {"resolved", "failed"}

\* The Handles that will deliver the root Task's Future to receive_result.
RecvIds == {h \in Pending : handles[h].kind = "recv"}

\* ---- C17: run stops stepping once it has received the root Task's
\* Future; a step that begins with the root Task already completed finds
\* receive_result in its early batch and polls select with timeout 0; and
\* receive_result is still undelivered after the early batch only in the
\* step in which the root Task completed.  So at most one step follows the
\* step of completion, and that step does not block.
C17_OneMoreStep ==
  /\ []((runPc = "running" /\ pc = "idle") => ~received_fut)
  /\ []((pc \in {"io", "late"} /\ RootDone /\ ~received_fut)
          => \E h \in RecvIds : hist[h].fresh)
  /\ [][(pc = "idle" /\ pc' = "select" /\ RootDone)
          => /\ wait_events' = 0
             /\ \E i \in DOMAIN early' : handles'[early'[i]].kind = "recv"]_vars

\* The step after the one in which the root Task completed: select is
\* polled although the scheduler reports no next event, and only
\* receive_result is due.
C17_Witness ==
  /\ pc = "select" /\ RootDone /\ ~received_fut
  /\ wait_events = 0 /\ Len(early) = 1
  /\ obs.next = None

\* ---- C18 (as claimed): select is called with timeout None only when the
\* scheduler holds no non-cancelled Handle, and with timeout 0 whenever the
\* scheduler holds a no-deadline Handle at the start of the step.
C18_NoBlockingAnyCallSoon ==
  /\ []((pc = "select" /\ wait_events = None) => Live(handles, queue) = {})
  /\ [][(pc = "idle" /\ pc' = "select"
           /\ \E h \in queue : handles[h].when = NoDeadline)
          => wait_events' = 0]_vars

\* ---- C18 (amended): select is called with timeout None only when the
\* scheduler holds no non-cancelled Handle, and with timeout 0 whenever the
\* scheduler holds a no-deadline Handle that is not cancelled at the start
\* of the step.
C18_NoBlockingWithWorkPending ==
  /\ []((pc = "select" /\ wait_events = None) => Live(handles, queue) = {})
  /\ [][(pc = "idle" /\ pc' = "select"
           /\ \E h \in queue :
                handles[h].when = NoDeadline /\ ~handles[h].cancelled)
          => wait_events' = 0]_vars

\* A Handle enqueued by call_soon is the only work there is: the scheduler
\* reports no next event and select is polled all the same.
C18_Witness ==
  /\ pc = "select" /\ wait_events = 0 /\ obs.next = None
  /\ Len(early) = 1
  /\ handles[early[1]].kind = "user" /\ handles[early[1]].when = NoDeadline

\* ---- C19: with a non-decreasing clock no timer Handle is invoked earlier
\* than one resolution before its deadline: when a Handle with deadline d is
\* invoked, clock.now() >= d - resolution.
C19_NotBeforeDeadline ==
  [][\A h \in DOMAIN handles :
       (InvokedNow(h) /\ handles[h].when # NoDeadline)
         => now >= handles[h].when - resolution]_vars

\* A timer was invoked in this step exactly one resolution ahead of its
\* deadline.
C19_Witness ==
  /\ pc \in {"early", "io", "late"}
  /\ prev.id \in DOMAIN handles /\ order[prev.id] = 1
  /\ handles[prev.id] # Destroyed(handles, prev.id)
  /\ handles[prev.id].when = now + resolution

\* ---- C20 (as claimed): no Networking instance is released (its factory
\* context exited, the cache cleared) while a create_networking scope that
\* was handed that instance is still open.
C20_NoReleaseWhileShared ==
  \A s \in 1..MaxScopes :
    scopes[s].state # "closed" => scopes[s].inst \notin released

====
